---- MODULE Spec2Model ----
(***************************************************************************)
(* openlogprobs/models.py: the Model facade over a completion API.         *)
(*                                                                         *)
(* Spec     OpenAIModel.topk (dispatch, retry loop, normalisation) and     *)
(*          OpenAIModel.argmax, one call at a time, against a backend      *)
(*          whose reply to each request is chosen nondeterministically.    *)
(* AggSpec  Model.median_topk and Model.median_argmax.  Both are methods   *)
(*          of the abstract base class and reach topk/argmax through       *)
(*          self, so each repeated query is a step whose outcome is any    *)
(*          outcome a topk/argmax implementation can produce.              *)
(*                                                                         *)
(* Python values: a dict with integer keys is a function whose domain is   *)
(* its key set; None, a dict and an int are told apart by a "type" field;  *)
(* an exception is the name of its class.  Log-probabilities are integers  *)
(* counted in units of 0.05, so that the mean of two of them is an integer *)
(* whenever both are multiples of 0.1 (even numbers).                      *)
(***************************************************************************)
EXTENDS Integers, Sequences, FiniteSets, TLC

VARIABLES
    model,      \* self.model, fixed at construction
    op,         \* the facade method in progress: "idle", "topk", "argmax"
    status,     \* "idle", "running", "returned", "raised"
    i,          \* the loop variable of topk's  for i in range(max_api_retries)
    reqs,       \* log of the backend requests the current call has made
    sleeps,     \* log of the time.sleep() delays of the current call
    value,      \* the value the call returned
    error,      \* the exception the call raised
    aop,        \* the aggregator in progress: "idle", "median_topk", "median_argmax"
    k,          \* the aggregator's argument k
    results,    \* the aggregator's list  results
    queries,    \* how many self.topk / self.argmax calls the aggregator has made
    astatus,    \* "idle", "running", "returned", "raised"
    avalue,     \* the value the aggregator returned
    aerror      \* the exception the aggregator raised

mvars == <<model, op, status, i, reqs, sleeps, value, error>>
avars == <<aop, k, results, queries, astatus, avalue, aerror>>
vars == <<model, op, status, i, reqs, sleeps, value, error,
          aop, k, results, queries, astatus, avalue, aerror>>

(***************************************************************************)
(* Bounds and program constants                                            *)
(***************************************************************************)
max_api_retries == 5

\* most entries in one top-logprobs list of a reply (the code asks for 5)
MaxEntries == 2

\* largest k passed to median_topk / median_argmax
MaxK == 3

\* Model identifiers tiktoken.encoding_for_model accepts, so that the
\* constructor succeeds: the three legacy names of topk, two chat names and
\* one name of neither family.
ModelIds == {"gpt-3.5-turbo-instruct", "babbage-002", "davinci-002",
             "gpt-4", "gpt-3.5-turbo", "text-davinci-003"}

\* Surface texts the backend may put in a reply.
Texts == {"", "a", "b", "ab"}

\* self.encoding.encode / enc.encode: the empty text has no token, "ab" has two.
Encode(text) ==
    CASE text = ""   -> <<>>
      [] text = "a"  -> <<7>>
      [] text = "b"  -> <<8>>
      [] text = "ab" -> <<7, 8>>

Tokens == {7, 8}

\* log-probabilities -0.1, -0.2, -0.3 in units of 0.05
LogProbs == {-2, -4, -6}

BackendErrors == {"APIConnectionError", "AuthenticationError", "BadRequestError"}

NoValue == [type |-> "unset"]
NoneValue == [type |-> "None"]
DictValue(d) == [type |-> "dict", dict |-> d]
IntValue(n) == [type |-> "int", int |-> n]

StartsWith(s, p) == Len(s) >= Len(p) /\ SubSeq(s, 1, Len(p)) = p

SeqsUpTo(S, n) == UNION {[1..m -> S] : m \in 0..n}

Init ==
    /\ model \in ModelIds
    /\ op = "idle"
    /\ status = "idle"
    /\ i = 0
    /\ reqs = <<>>
    /\ sleeps = <<>>
    /\ value = NoValue
    /\ error = ""
    /\ aop = "idle"
    /\ k = 0
    /\ results = <<>>
    /\ queries = 0
    /\ astatus = "idle"
    /\ avalue = NoValue
    /\ aerror = ""

(***************************************************************************)
(* The backend (self.client) and its replies                               *)
(***************************************************************************)
\* top_logprobs[0] of a completions reply: a dict text -> logprob, as the
\* list of its items; a dict has no two items with the same key.
ItemLists ==
    {l \in SeqsUpTo(Texts \X LogProbs, MaxEntries) :
        \A a, b \in 1..Len(l) : a # b => l[a][1] # l[b][1]}

\* content[0].top_logprobs of a chat reply: a list of objects with the
\* attributes token and logprob.
TopLogprobLists ==
    SeqsUpTo([token : Texts, logprob : LogProbs], MaxEntries)

Raising == {[raises |-> e, choices |-> <<>>] : e \in BackendErrors}

\* what client.completions.create(..., logprobs=5) may do
InstructReplies ==
    Raising \cup
    {[raises |-> "", choices |-> c] :
        c \in {<<>>, <<[top_logprobs |-> <<>>]>>}
              \cup {<<[top_logprobs |-> <<d>>]>> : d \in ItemLists}}

\* what client.chat.completions.create(..., logprobs=True, top_logprobs=5) may do
ChatReplies ==
    Raising \cup
    {[raises |-> "", choices |-> c] :
        c \in {<<>>, <<[content |-> <<>>]>>}
              \cup {<<[content |-> <<[top_logprobs |-> l]>>]>> : l \in TopLogprobLists}}

\* what the two create() calls of argmax (max_tokens=1, n=1) may do
InstructTextReplies ==
    Raising \cup
    {[raises |-> "", choices |-> c] :
        c \in {<<>>} \cup {<<[text |-> t]>> : t \in Texts}}

\* The message of a chat choice is an object read by subscript in argmax.
\* The client of openai >= 1.0 (openai.OpenAI, line 46) returns an object with
\* attributes and no __getitem__; a backend that returns mappings gives a
\* subscriptable one.
ChatMessages == [subscriptable : BOOLEAN, content : Texts]

ChatTextReplies ==
    Raising \cup
    {[raises |-> "", choices |-> c] :
        c \in {<<>>} \cup {<<[message |-> m]>> : m \in ChatMessages}}

(***************************************************************************)
(* Normalisation: _instruct_logprobs and _chat_logprobs                    *)
(***************************************************************************)
Raise(e) == [exc |-> e, dict |-> <<>>]
Return(d) == [exc |-> "", dict |-> d]

\* d[key] = v on a dict: a key already present is overwritten
Put(d, key, v) == [t \in (DOMAIN d) \cup {key} |-> IF t = key THEN v ELSE d[t]]

\* {encode(x)[0]: y for x, y in pairs}, over the first n pairs: encode(x)[0]
\* raises IndexError when x encodes to no token.
RECURSIVE FirstTokenDict(_, _)
FirstTokenDict(pairs, n) ==
    IF n = 0 THEN Return(<<>>)
    ELSE LET prev == FirstTokenDict(pairs, n - 1)
             toks == Encode(pairs[n][1])
         IN  IF prev.exc # "" THEN prev
             ELSE IF Len(toks) = 0 THEN Raise("IndexError")
             ELSE Return(Put(prev.dict, toks[1], pairs[n][2]))

instruct_logprobs(reply) ==
    IF reply.raises # "" THEN Raise(reply.raises)
    ELSE IF Len(reply.choices) = 0 THEN Raise("IndexError")
    ELSE LET top_logprobs == reply.choices[1].top_logprobs
         IN  IF Len(top_logprobs) = 0 THEN Raise("IndexError")
             ELSE FirstTokenDict(top_logprobs[1], Len(top_logprobs[1]))

chat_logprobs(reply) ==
    IF reply.raises # "" THEN Raise(reply.raises)
    ELSE IF Len(reply.choices) = 0 THEN Raise("IndexError")
    ELSE LET content == reply.choices[1].content
         IN  IF Len(content) = 0 THEN Raise("IndexError")
             ELSE LET raw_logprobs == content[1].top_logprobs
                      pairs == [n \in 1..Len(raw_logprobs) |->
                                  <<raw_logprobs[n].token, raw_logprobs[n].logprob>>]
                  IN  FirstTokenDict(pairs, Len(pairs))

(***************************************************************************)
(* OpenAIModel.topk                                                        *)
(***************************************************************************)
\* topk with the fallback of argmax: every other identifier is a chat model
TopkFamilyFallback(m) ==
    IF m \in {"gpt-3.5-turbo-instruct", "babbage-002", "davinci-002"}
    THEN "completions"
    ELSE "chat"

\* the if / elif / else of topk: which request the model identifier selects
TopkFamily(m) ==
    IF m \in {"gpt-3.5-turbo-instruct", "babbage-002", "davinci-002"}
    THEN "completions"
    ELSE IF StartsWith(m, "gpt-4") \/ StartsWith(m, "gpt-3")
    THEN "chat"
    ELSE "unsupported"

\* a bare  except:  swallows every exception
RetriedAny(exc) == TRUE

\* except IndexError: the exceptions the retry loop swallows
Retried(exc) == exc = "IndexError"

\* time.sleep(10 * i): the backoff counted from zero
BackoffFromZero(n) == 10 * n

\* time.sleep(10 * (i+1))
Backoff(n) == 10 * (n + 1)

LogEntry(endpoint, reply, out) ==
    [endpoint |-> endpoint, raised |-> reply.raises,
     nchoices |-> Len(reply.choices), exc |-> out.exc, dict |-> out.dict]

CallTopk ==
    /\ op = "idle"
    /\ op' = "topk"
    /\ status' = "running"
    /\ i' = 0
    /\ reqs' = <<>>
    /\ sleeps' = <<>>
    /\ value' = NoValue
    /\ error' = ""
    /\ UNCHANGED <<model, avars>>

\* One pass of the loop body in the else branch: NotImplementedError is not
\* caught by  except IndexError  and leaves topk.
TopkUnsupported ==
    /\ op = "topk" /\ status = "running" /\ i < max_api_retries
    /\ TopkFamily(model) = "unsupported"
    /\ status' = "raised"
    /\ error' = "NotImplementedError"
    /\ UNCHANGED <<model, op, i, reqs, sleeps, value, avars>>

\* One pass of the loop body that issues a request: the reply is normalised
\* and returned, or the exception is swallowed and followed by the sleep, or
\* the exception leaves topk.
TopkAttempt ==
    /\ op = "topk" /\ status = "running" /\ i < max_api_retries
    /\ TopkFamily(model) # "unsupported"
    /\ \E reply \in IF TopkFamily(model) = "completions"
                    THEN InstructReplies ELSE ChatReplies :
         LET out == IF TopkFamily(model) = "completions"
                    THEN instruct_logprobs(reply) ELSE chat_logprobs(reply)
         IN  /\ reqs' = Append(reqs, LogEntry(TopkFamily(model), reply, out))
             /\ IF out.exc = ""
                THEN /\ status' = "returned"
                     /\ value' = DictValue(out.dict)
                     /\ UNCHANGED <<i, sleeps, error>>
                ELSE IF Retried(out.exc)
                THEN /\ sleeps' = Append(sleeps, Backoff(i))
                     /\ i' = i + 1
                     /\ UNCHANGED <<status, value, error>>
                ELSE /\ status' = "raised"
                     /\ error' = out.exc
                     /\ UNCHANGED <<i, sleeps, value>>
    /\ UNCHANGED <<model, op, avars>>

\* range(max_api_retries) is used up: the function body ends without a
\* return statement, so the call returns None.
TopkFallThrough ==
    /\ op = "topk" /\ status = "running" /\ i >= max_api_retries
    /\ status' = "returned"
    /\ value' = NoneValue
    /\ UNCHANGED <<model, op, i, reqs, sleeps, error, avars>>

(***************************************************************************)
(* OpenAIModel.argmax                                                      *)
(***************************************************************************)
\* the if / else of argmax
ArgmaxFamily(m) ==
    IF m = "gpt-3.5-turbo-instruct" THEN "completions" ELSE "chat"

\* output = response.choices[0].text  /  response.choices[0].message["content"],
\* then  return enc.encode(output)[0].  choices[0] raises IndexError on an
\* empty list, message["content"] raises TypeError on a message that is not
\* subscriptable, encode(output)[0] raises IndexError on a text of no token.
argmax_decode(endpoint, reply) ==
    IF reply.raises # "" THEN [exc |-> reply.raises, int |-> 0]
    ELSE IF Len(reply.choices) = 0 THEN [exc |-> "IndexError", int |-> 0]
    ELSE IF endpoint = "chat" /\ ~reply.choices[1].message.subscriptable
    THEN [exc |-> "TypeError", int |-> 0]
    ELSE LET output == IF endpoint = "completions"
                       THEN reply.choices[1].text
                       ELSE reply.choices[1].message.content
             toks == Encode(output)
         IN  IF Len(toks) = 0 THEN [exc |-> "IndexError", int |-> 0]
             ELSE [exc |-> "", int |-> toks[1]]

CallArgmax ==
    /\ op = "idle"
    /\ op' = "argmax"
    /\ status' = "running"
    /\ i' = 0
    /\ reqs' = <<>>
    /\ sleeps' = <<>>
    /\ value' = NoValue
    /\ error' = ""
    /\ UNCHANGED <<model, avars>>

ArgmaxRequest ==
    /\ op = "argmax" /\ status = "running"
    /\ \E reply \in IF ArgmaxFamily(model) = "completions"
                    THEN InstructTextReplies ELSE ChatTextReplies :
         LET out == argmax_decode(ArgmaxFamily(model), reply)
         IN  /\ reqs' = Append(reqs, LogEntry(ArgmaxFamily(model), reply,
                                              [exc |-> out.exc, dict |-> <<>>]))
             /\ IF out.exc = ""
                THEN /\ status' = "returned"
                     /\ value' = IntValue(out.int)
                     /\ error' = error
                ELSE /\ status' = "raised"
                     /\ error' = out.exc
                     /\ value' = value
    /\ UNCHANGED <<model, op, i, sleeps, avars>>

\* the caller has the result; the next call starts from the same facade
Finish ==
    /\ op # "idle" /\ status \in {"returned", "raised"}
    /\ op' = "idle"
    /\ status' = "idle"
    /\ i' = 0
    /\ reqs' = <<>>
    /\ sleeps' = <<>>
    /\ value' = NoValue
    /\ error' = ""
    /\ UNCHANGED <<model, avars>>

Next ==
    \/ CallTopk
    \/ TopkUnsupported
    \/ TopkAttempt
    \/ TopkFallThrough
    \/ CallArgmax
    \/ ArgmaxRequest
    \/ Finish

Spec == Init /\ [][Next]_vars

(***************************************************************************)
(* Model.median_topk and Model.median_argmax                               *)
(***************************************************************************)
\* every dict a topk implementation can return over the tokens of the codec
Dicts == UNION {[S -> LogProbs] : S \in SUBSET Tokens}

\* self.topk(*args, **kwargs): a dict, None (OpenAIModel.topk after its loop
\* is used up) or an exception
TopkOutcomes ==
    {[exc |-> "", val |-> DictValue(d)] : d \in Dicts}
    \cup {[exc |-> "", val |-> NoneValue]}
    \cup {[exc |-> e, val |-> NoValue] : e \in BackendErrors \cup {"NotImplementedError"}}

\* self.argmax(*args, **kwargs): a token id or an exception
ArgmaxOutcomes ==
    {[exc |-> "", val |-> IntValue(t)] : t \in Tokens}
    \cup {[exc |-> e, val |-> NoValue] :
             e \in BackendErrors \cup {"IndexError", "TypeError"}}

\* np.mean in the place of np.median
Mean(xs) ==
    LET RECURSIVE Sum(_)
        Sum(n) == IF n = 0 THEN 0 ELSE xs[n] + Sum(n - 1)
    IN  Sum(Len(xs)) \div Len(xs)

\* np.median of a non-empty list: the middle of the sorted list, or the mean
\* of the two middle elements
Median(xs) ==
    LET s == SortSeq(xs, LAMBDA a, b : a < b)
        n == Len(xs)
    IN  IF n % 2 = 1 THEN s[(n + 1) \div 2]
        ELSE (s[n \div 2] + s[n \div 2 + 1]) \div 2

\* result[word], for result one element of results
Lookup(result, word) ==
    IF result.type # "dict" THEN "TypeError"
    ELSE IF word \notin DOMAIN result.dict THEN "KeyError"
    ELSE ""

\* [result[word] for result in results] stops at the first result it cannot
\* index: the exception of that lookup, or "" when every lookup succeeds
RECURSIVE ColumnError(_, _, _)
ColumnError(rs, word, n) ==
    IF n > Len(rs) THEN ""
    ELSE IF Lookup(rs[n], word) # "" THEN Lookup(rs[n], word)
    ELSE ColumnError(rs, word, n + 1)

\* median_topk whose comprehension iterates the keys of every result but
\* reads the column of one fixed key of results[0]
median_topk_return_one_column(rs) ==
    IF Len(rs) = 0 THEN {Raise("IndexError")}
    ELSE IF rs[1].type # "dict" THEN {Raise("AttributeError")}
    ELSE LET keys == DOMAIN rs[1].dict
             bad == {w \in keys : ColumnError(rs, w, 1) # ""}
         IN  IF bad # {} THEN {Raise(ColumnError(rs, w, 1)) : w \in bad}
             ELSE {Return([w \in keys |->
                              Median([n \in 1..Len(rs) |-> rs[n].dict[v]])]) : v \in keys}

\* The return statement of median_topk, as the set of its possible outcomes.
\* The comprehension visits results[0].keys() in the dict's insertion order
\* and the first failing key decides the exception; a dict is modelled
\* without its order, so any failing key may be that one.
median_topk_return(rs) ==
    IF Len(rs) = 0 THEN {Raise("IndexError")}
    ELSE IF rs[1].type # "dict" THEN {Raise("AttributeError")}
    ELSE LET keys == DOMAIN rs[1].dict
             bad == {w \in keys : ColumnError(rs, w, 1) # ""}
         IN  IF bad # {} THEN {Raise(ColumnError(rs, w, 1)) : w \in bad}
             ELSE {Return([w \in keys |->
                              Median([n \in 1..Len(rs) |-> rs[n].dict[w]])])}

CallMedianTopk ==
    /\ aop = "idle"
    /\ \E kk \in 0..MaxK : k' = kk
    /\ aop' = "median_topk"
    /\ astatus' = "running"
    /\ results' = <<>>
    /\ queries' = 0
    /\ avalue' = NoValue
    /\ aerror' = ""
    /\ UNCHANGED mvars

\* one element of  [self.topk(*args, **kwargs) for _ in range(k)]
MedianTopkQuery ==
    /\ aop = "median_topk" /\ astatus = "running" /\ Len(results) < k
    /\ queries' = queries + 1
    /\ \E out \in TopkOutcomes :
         IF out.exc = ""
         THEN /\ results' = Append(results, out.val)
              /\ UNCHANGED <<astatus, aerror>>
         ELSE /\ astatus' = "raised"
              /\ aerror' = out.exc
              /\ UNCHANGED results
    /\ UNCHANGED <<mvars, aop, k, avalue>>

MedianTopkReturn ==
    /\ aop = "median_topk" /\ astatus = "running" /\ Len(results) = k
    /\ \E out \in median_topk_return(results) :
         IF out.exc = ""
         THEN /\ astatus' = "returned"
              /\ avalue' = DictValue(out.dict)
              /\ UNCHANGED aerror
         ELSE /\ astatus' = "raised"
              /\ aerror' = out.exc
              /\ UNCHANGED avalue
    /\ UNCHANGED <<mvars, aop, k, results, queries>>

\* return np.median(): numpy's median is called without its argument
median_argmax_return(rs) == [exc |-> "TypeError", int |-> 0]

CallMedianArgmax ==
    /\ aop = "idle"
    /\ \E kk \in 0..MaxK : k' = kk
    /\ aop' = "median_argmax"
    /\ astatus' = "running"
    /\ results' = <<>>
    /\ queries' = 0
    /\ avalue' = NoValue
    /\ aerror' = ""
    /\ UNCHANGED mvars

\* one element of  [self.argmax(*args, **kwargs) for _ in range(k)]
MedianArgmaxQuery ==
    /\ aop = "median_argmax" /\ astatus = "running" /\ Len(results) < k
    /\ queries' = queries + 1
    /\ \E out \in ArgmaxOutcomes :
         IF out.exc = ""
         THEN /\ results' = Append(results, out.val)
              /\ UNCHANGED <<astatus, aerror>>
         ELSE /\ astatus' = "raised"
              /\ aerror' = out.exc
              /\ UNCHANGED results
    /\ UNCHANGED <<mvars, aop, k, avalue>>

MedianArgmaxReturn ==
    /\ aop = "median_argmax" /\ astatus = "running" /\ Len(results) = k
    /\ LET out == median_argmax_return(results)
       IN  IF out.exc = ""
           THEN /\ astatus' = "returned"
                /\ avalue' = IntValue(out.int)
                /\ UNCHANGED aerror
           ELSE /\ astatus' = "raised"
                /\ aerror' = out.exc
                /\ UNCHANGED avalue
    /\ UNCHANGED <<mvars, aop, k, results, queries>>

\* the caller has the aggregate; the next call starts afresh
AggFinish ==
    /\ aop # "idle" /\ astatus \in {"returned", "raised"}
    /\ aop' = "idle"
    /\ astatus' = "idle"
    /\ k' = 0
    /\ results' = <<>>
    /\ queries' = 0
    /\ avalue' = NoValue
    /\ aerror' = ""
    /\ UNCHANGED mvars

\* The aggregators never read self.model: one facade is enough.
AggInit == Init /\ model = "gpt-3.5-turbo-instruct"

AggNext ==
    \/ CallMedianTopk
    \/ MedianTopkQuery
    \/ MedianTopkReturn
    \/ CallMedianArgmax
    \/ MedianArgmaxQuery
    \/ MedianArgmaxReturn
    \/ AggFinish

AggSpec == AggInit /\ [][AggNext]_vars

(***************************************************************************)
(* Properties                                                              *)
(***************************************************************************)
Finished == status \in {"returned", "raised"}
AggFinished == astatus \in {"returned", "raised"}

\* the backend answered the request and the answer has zero choices
IsEmptyResponse(e) == e.raised = "" /\ e.nchoices = 0

AllEmptyResponses == \A j \in 1..Len(reqs) : IsEmptyResponse(reqs[j])

\* C1: a topk call all of whose attempts end in EmptyResponse makes exactly
\* max_api_retries = 5 attempts and then raises RetriesExhausted; it never
\* returns an absent value and never makes a sixth attempt.
C1_ExhaustionRaises ==
    (op = "topk" /\ AllEmptyResponses) =>
        /\ Len(reqs) <= 5
        /\ (Finished /\ Len(reqs) >= 1) =>
              /\ Len(reqs) = 5
              /\ status = "raised"
              /\ error = "RetriesExhausted"
        /\ ~(status = "returned" /\ value = NoneValue)

\* C2: when the first two attempts of a topk call end in EmptyResponse and
\* the third succeeds, the call has made exactly three attempts, all at the
\* endpoint of its family, has slept exactly twice, 10 and then 20, and
\* returns the map of the third attempt; in every call the sleep after the
\* failed attempt i (0-indexed) is 10*(i+1).
C2_TwoRetriesThenSuccess ==
    op = "topk" =>
        /\ \A j \in 1..Len(sleeps) : sleeps[j] = 10 * j
        /\ (/\ Len(reqs) >= 3
            /\ IsEmptyResponse(reqs[1])
            /\ IsEmptyResponse(reqs[2])
            /\ reqs[3].exc = "") =>
              /\ Len(reqs) = 3
              /\ \A j \in 1..3 : reqs[j].endpoint = reqs[1].endpoint
              /\ sleeps = <<10, 20>>
              /\ status = "returned"
              /\ value = DictValue(reqs[3].dict)

C2_Witness ==
    /\ op = "topk" /\ status = "returned"
    /\ Len(reqs) = 3
    /\ IsEmptyResponse(reqs[1]) /\ IsEmptyResponse(reqs[2])
    /\ sleeps = <<10, 20>>
    /\ value.type = "dict" /\ DOMAIN value.dict = {7, 8}

\* C3: a backend request of topk that fails with an error other than
\* EmptyResponse is the last request of the call: topk raises that same
\* error, no sleep follows the request and the loop does not advance.
C3_OtherErrorsPropagate ==
    op = "topk" =>
        \A j \in 1..Len(reqs) :
            reqs[j].raised # "" =>
                /\ j = Len(reqs)
                /\ status = "raised"
                /\ error = reqs[j].raised
                /\ Len(sleeps) = j - 1
                /\ i = j - 1

C3_Witness ==
    /\ op = "topk" /\ status = "raised"
    /\ error = "AuthenticationError"
    /\ Len(reqs) = 3 /\ reqs[3].raised = "AuthenticationError"
    /\ Len(sleeps) = 2 /\ i = 2

\* C4: topk on a model identifier of neither family (not one of the three
\* legacy names, not starting with gpt-4 or gpt-3) raises the unsupported-
\* model error (NotImplementedError) in its first pass: no backend request,
\* no sleep, no retry.
C4_UnsupportedModelFailsFirst ==
    (/\ op = "topk"
     /\ model \notin {"gpt-3.5-turbo-instruct", "babbage-002", "davinci-002"}
     /\ ~StartsWith(model, "gpt-4")
     /\ ~StartsWith(model, "gpt-3")) =>
        /\ reqs = <<>>
        /\ sleeps = <<>>
        /\ i = 0
        /\ Finished => (status = "raised" /\ error = "NotImplementedError")

C4_Witness ==
    /\ op = "topk" /\ model = "text-davinci-003"
    /\ status = "raised" /\ error = "NotImplementedError"
    /\ reqs = <<>> /\ sleeps = <<>>

\* C8: only an EmptyResponse (a reply with zero choices) is followed by a
\* sleep and a retry: the attempt before every sleep of a topk call got a
\* reply with zero choices.
C8_OnlyEmptyResponseRetried ==
    op = "topk" =>
        \A j \in 1..Len(sleeps) : IsEmptyResponse(reqs[j])

\* C9: argmax classifies the model identifier as topk does: it sends its
\* request to the endpoint topk uses for that identifier, and for an
\* identifier topk rejects it raises the unsupported-model error without a
\* request.
C9_ArgmaxDispatchesLikeTopk ==
    (op = "argmax" /\ Finished) =>
        IF TopkFamily(model) = "unsupported"
        THEN status = "raised" /\ error = "NotImplementedError" /\ reqs = <<>>
        ELSE Len(reqs) = 1 /\ reqs[1].endpoint = TopkFamily(model)

\* C10: a finished topk call that made n >= 1 backend attempts slept exactly
\* n-1 times; after max_api_retries = 5 failed attempts the sleeps are
\* 10, 20, 30, 40.
C10_SleepOnlyBetweenAttempts ==
    (op = "topk" /\ Finished /\ Len(reqs) >= 1) =>
        /\ Len(sleeps) = Len(reqs) - 1
        /\ Len(reqs) = 5 /\ reqs[5].exc # "" /\ reqs[5].raised = ""
              => sleeps = <<10, 20, 30, 40>>

\* the r-th smallest element of a non-empty list, by counting
Kth(xs, r) ==
    CHOOSE v \in {xs[n] : n \in 1..Len(xs)} :
        /\ Cardinality({n \in 1..Len(xs) : xs[n] < v}) < r
        /\ Cardinality({n \in 1..Len(xs) : xs[n] <= v}) >= r

\* m is the median of xs: twice m is the sum of the two middle order
\* statistics (the same element when the length is odd)
IsMedian(m, xs) ==
    2 * m = Kth(xs, (Len(xs) + 1) \div 2) + Kth(xs, Len(xs) \div 2 + 1)

AllDicts == \A n \in 1..Len(results) : results[n].type = "dict"

SameKeySets ==
    /\ AllDicts
    /\ \A n \in 1..Len(results) : DOMAIN results[n].dict = DOMAIN results[1].dict

\* C5: a median_topk(k, ...) call that returns has made exactly k topk
\* queries, and its result has exactly the keys of the first query's result,
\* each with the median of that key's values over all k results; no other
\* key appears.  When the k results are maps with one and the same key set,
\* the call returns.
C5_MedianTopkPerKeyMedian ==
    aop = "median_topk" =>
        /\ queries <= k
        /\ astatus = "returned" =>
              /\ k >= 1 /\ queries = k /\ Len(results) = k
              /\ avalue.type = "dict"
              /\ DOMAIN avalue.dict = DOMAIN results[1].dict
              /\ \A w \in DOMAIN avalue.dict :
                    /\ \A n \in 1..k : w \in DOMAIN results[n].dict
                    /\ IsMedian(avalue.dict[w], [n \in 1..k |-> results[n].dict[w]])
        /\ (AggFinished /\ k >= 1 /\ Len(results) = k /\ SameKeySets)
              => astatus = "returned"

\* k = 3 and the values -0.1, -0.3, -0.2 for token 7 give -0.2 (-2, -6, -4
\* and -4 in units of 0.05); token 8 is in a later result only and is dropped
C5_Witness ==
    /\ aop = "median_topk" /\ astatus = "returned" /\ k = 3
    /\ DOMAIN results[1].dict = {7}
    /\ 8 \in DOMAIN results[2].dict
    /\ results[1].dict[7] = -2 /\ results[2].dict[7] = -6 /\ results[3].dict[7] = -4
    /\ avalue = DictValue((7 :> -4))

\* C6: a median_argmax(k, ...) call whose k argmax queries all returned a
\* token id returns the median of the k ids, which for odd k is one of them.
C6_MedianArgmaxReturnsMedian ==
    (aop = "median_argmax" /\ AggFinished /\ k >= 1 /\ Len(results) = k) =>
        /\ queries = k
        /\ astatus = "returned"
        /\ avalue.type = "int"
        /\ IsMedian(avalue.int, [n \in 1..k |-> results[n].int])
        /\ k % 2 = 1 => \E n \in 1..k : avalue.int = results[n].int

\* C7: median_topk(1, ...) whose single topk query returned a map returns a
\* map equal to it, key for key and value for value.
C7_MedianTopkOneIsIdentity ==
    (/\ aop = "median_topk" /\ k = 1 /\ AggFinished
     /\ Len(results) = 1 /\ results[1].type = "dict") =>
        /\ astatus = "returned"
        /\ queries = 1
        /\ avalue = results[1]

C7_Witness ==
    /\ aop = "median_topk" /\ k = 1 /\ astatus = "returned"
    /\ results = <<DictValue((7 :> -2) @@ (8 :> -6))>>
    /\ avalue = DictValue((7 :> -2) @@ (8 :> -6))

====
